---- MODULE Spec2Model ----
(***************************************************************************)
(* The netcode.io server (rust/src/server/mod.rs): the slot table, the     *)
(* connect-token admission, the challenge/response handshake, the per-slot *)
(* packet handler and the two-phase next_event (one datagram, then the     *)
(* tick loop).  The channel, packet and token modules are collaborators    *)
(* of the server that the server file only calls; they are modelled from   *)
(* their written contract.                                                 *)
(*                                                                         *)
(* Time is counted in units of 100 ms.  Socket sends always succeed.       *)
(***************************************************************************)
EXTENDS Integers, Sequences, FiniteSets, TLC

VARIABLES
    max_clients,        \* the max_clients Server::new was given
    listen_addr,        \* Server.listen_addr
    clients,            \* Server.clients : slot index -> None or a Connection
    time,               \* Server.time
    challenge_sequence, \* Server.challenge_sequence
    client_event_idx,   \* Server.client_event_idx
    queued,             \* datagrams waiting in the listen socket's receive buffer
    accepted            \* per slot: sequences the slot's channel accepted (history)

vars == <<max_clients, listen_addr, clients, time, challenge_sequence, client_event_idx,
          queued, accepted>>

--------------------------------------------------------------------------
\* Bounds of the model.

\* largest max_clients handed to Server::new
MaxClients == 2
\* inbound sequence numbers run over 0..MaxSeq and the far sequence REPLAY_WINDOW
MaxSeq == 0
\* the clock stops advancing here
MaxTime == 51
\* datagrams the receive buffer holds
MaxQueue == 1
\* a channel stops sending at this send sequence
MaxSendSeq == 3
\* no challenge is issued beyond this challenge sequence
MaxChallenge == 2
\* datagrams the receive buffer holds when a burst arrives
MaxBurst == 2

--------------------------------------------------------------------------
\* Constants of the protocol.

\* receive timeout: 5 seconds
RECV_TIMEOUT == 50
\* keep-alive interval: 100 ms
SEND_KEEP_ALIVE_INTERVAL == 1
\* width of the replay window
REPLAY_WINDOW == 256
NETCODE_MAX_PAYLOAD_SIZE == 1200
NETCODE_VERSION_STRING == "NETCODE 1.00"

--------------------------------------------------------------------------
\* Values.

Addr(ip, port) == [ip |-> ip, port |-> port]

\* the address the server is bound to: 127.0.0.1 with port 0
ListenAddrs == { Addr(1, 0) }
\* the addresses datagrams come from
PeerAddrs == { Addr(2, 1), Addr(2, 2) }
ClientIds == { 1, 2 }
Seqs == (0 .. MaxSeq) \cup { REPLAY_WINDOW }
\* update(elapsed)
Elapsed == { 0, RECV_TIMEOUT + 1 }
\* token::get_time_now(), in seconds
WallClock == { 2 }

None == [none |-> TRUE]
NotFound == -1

\* ServerEvent, and the other results of next_event and send
Ev(type, id, len) == [type |-> type, id |-> id, len |-> len]
NoEvent == Ev("None", 0, 0)
ErrDecode == Ev("Err", 0, 0)

\* ConnectionRequestPacket: the fields validate_client_token reads.  sealed
\* tells whether private_data decodes under the server's connect_key.
Request(version, expire, sealed, hosts, id) ==
    [version |-> version, token_expire |-> expire, sealed |-> sealed,
     hosts |-> hosts, client_id |-> id]
NoRequest == Request("", 0, FALSE, {}, 0)

GoodRequest(id) == Request(NETCODE_VERSION_STRING, 2, TRUE, { Addr(1, 5) }, id)
Requests ==
    { GoodRequest(id) : id \in ClientIds } \cup
    { Request("NETCODE 0.99", 2, TRUE, { Addr(1, 5) }, 1),
      Request(NETCODE_VERSION_STRING, 1, TRUE, { Addr(1, 5) }, 1),
      Request(NETCODE_VERSION_STRING, 2, FALSE, { Addr(1, 5) }, 1),
      Request(NETCODE_VERSION_STRING, 2, TRUE, { Addr(9, 5), Addr(9, 0) }, 1) }

\* An inbound datagram.  type "Empty" is a datagram of length 0; sealed tells
\* whether it opens under the receiving channel's client-to-server key; token
\* is the client id of the challenge token a Response carries (0: a token that
\* does not open under challenge_key).
Dgram(addr, type, seq, sealed, req, token, len) ==
    [addr |-> addr, type |-> type, seq |-> seq, sealed |-> sealed,
     req |-> req, token |-> token, len |-> len]

SessionTypes == { "Payload", "KeepAlive", "Disconnect", "Challenge" }

Datagrams(tokens) ==
    { Dgram(a, "Empty", 0, FALSE, NoRequest, 0, 0) : a \in PeerAddrs } \cup
    { Dgram(a, "ConnectionRequest", 0, TRUE, r, 0, 0) : a \in PeerAddrs, r \in Requests } \cup
    { Dgram(a, "Response", s, k, NoRequest, t, 0) :
        a \in PeerAddrs, s \in Seqs, k \in { TRUE }, t \in tokens \cup {0} } \cup
    { Dgram(a, ty, s, TRUE, NoRequest, 0, IF ty = "Payload" THEN 7 ELSE 0) :
        a \in PeerAddrs, ty \in SessionTypes, s \in Seqs } \cup
    { Dgram(a, "Payload", s, FALSE, NoRequest, 0, 7) : a \in PeerAddrs, s \in Seqs }

\* An outbound datagram.
Out(to, type, seq, key, token_client, token_sequence, client_idx, capacity, len) ==
    [to |-> to, type |-> type, seq |-> seq, key |-> key,
     token_client |-> token_client, token_sequence |-> token_sequence,
     client_idx |-> client_idx, max_clients |-> capacity, len |-> len]

--------------------------------------------------------------------------
\* The secure channel of a connection.

ChannelNew(key, addr, idx, n) ==
    [key |-> key, addr |-> addr, client_idx |-> idx, max_clients |-> n,
     next_sequence |-> 1, highest_seen |-> -1, marked |-> {},
     last_recv |-> 0, last_send |-> 0]

\* Channel::send: seal under the send sequence, advance it, note the time.
ChannelSend(ch, now, type, token_client, token_sequence, len) ==
    [ch |-> [ch EXCEPT !.next_sequence = @ + 1, !.last_send = now],
     out |-> << Out(ch.addr, type, ch.next_sequence, ch.key, token_client,
                    token_sequence,
                    IF type = "KeepAlive" THEN ch.client_idx ELSE 0,
                    IF type = "KeepAlive" THEN ch.max_clients ELSE 0, len) >>]

send_keep_alive(ch, now) == ChannelSend(ch, now, "KeepAlive", 0, 0, 0)

\* The sequence a datagram presents to the replay window: a ConnectionRequest
\* is encoded without one and decodes with sequence 0.
SequenceOf(d) == IF d.type = "ConnectionRequest" THEN 0 ELSE d.seq

ReplayStale(ch, s) == s <= ch.highest_seen - REPLAY_WINDOW
ReplayDuplicate(ch, s) == s \in ch.marked

ReplayMark(ch, s) ==
    LET hi == IF s > ch.highest_seen THEN s ELSE ch.highest_seen
    IN  [ch EXCEPT !.highest_seen = hi,
                   !.marked = { x \in (@ \cup {s}) : x > hi - REPLAY_WINDOW }]

\* Channel::recv: replay window, then authenticated decrypt, then mark.
ChannelRecv(ch, now, d) ==
    LET s == SequenceOf(d)
    IN  IF ReplayStale(ch, s) \/ ReplayDuplicate(ch, s)
        THEN [result |-> "DuplicateSequence", ch |-> ch]
        ELSE IF d.type # "ConnectionRequest" /\ ~d.sealed
        THEN [result |-> "DecodeError", ch |-> ch]
        ELSE [result |-> "Ok", ch |-> [ReplayMark(ch, s) EXCEPT !.last_recv = now]]

\* Channel::update: the liveness tick.
ChannelUpdate(ch, now, keep_alive) ==
    IF now - ch.last_recv > RECV_TIMEOUT
    THEN [result |-> "Expired", ch |-> ch, out |-> <<>>]
    ELSE IF keep_alive /\ now - ch.last_send > SEND_KEEP_ALIVE_INTERVAL
    THEN LET s == send_keep_alive(ch, now)
         IN  [result |-> "SentKeepAlive", ch |-> s.ch, out |-> s.out]
    ELSE [result |-> "Noop", ch |-> ch, out |-> <<>>]

--------------------------------------------------------------------------
\* The server.

Connection(id, state, channel) ==
    [client_id |-> id, state |-> state, channel |-> channel]

Server(la, cl, t, cs, idx) ==
    [listen_addr |-> la, clients |-> cl, time |-> t,
     challenge_sequence |-> cs, client_event_idx |-> idx]

Self == Server(listen_addr, clients, time, challenge_sequence, client_event_idx)

Slots(cl) == DOMAIN cl
Capacity(cl) == Cardinality(DOMAIN cl)
Occupied(cl) == { i \in DOMAIN cl : cl[i] # None }

\* Iterator::position
Position(S) == IF S = {} THEN NotFound ELSE CHOOSE i \in S : \A j \in S : i <= j

find_client_by_id(cl, id) ==
    Position({ i \in Occupied(cl) : cl[i].client_id = id })

find_client_by_addr(cl, addr) ==
    Position({ i \in Occupied(cl) : cl[i].channel.addr = addr })

\* Challenge tokens a peer can present: the server sealed one for the client
\* id of every slot when it admitted it.
IssuedTokens(cl) == { cl[i].client_id : i \in Occupied(cl) }

Result(srv, event, out) == [srv |-> srv, event |-> event, out |-> out]

NoPrivateData == [client_id |-> 0, key |-> 0]

\* a mutation of token_expired: the expiry of the token is not looked at
token_expired_never(now, req) == FALSE

\* a mutation of token_expired: a token is refused at the second it expires
token_expired_at_expiry(now, req) == now >= req.token_expire

\* validate_client_token: "now > req.token_expire"
token_expired(now, req) == now > req.token_expire

validate_client_token(host, req, now) ==
    IF req.version # NETCODE_VERSION_STRING THEN NoPrivateData
    ELSE IF token_expired(now, req) THEN NoPrivateData
    ELSE IF req.sealed
    THEN IF \E thost \in req.hosts :
                thost = host \/ (host.port = 0 /\ thost.ip = host.ip)
         THEN [client_id |-> req.client_id, key |-> req.client_id]
         ELSE NoPrivateData
    ELSE NoPrivateData

\* a mutation of send_packet: the packet is sealed by a copy of the channel,
\* the slot's channel stays as it was
send_packet_forgets(srv, client_id, type, token_client, token_sequence, len) ==
    LET idx == Position({ i \in Occupied(srv.clients) : srv.clients[i].client_id = client_id })
    IN  IF idx # NotFound
        THEN Result(srv, Ev("Ok", 0, len),
                    ChannelSend(srv.clients[idx].channel, srv.time, type,
                                token_client, token_sequence, len).out)
        ELSE Result(srv, Ev("InvalidClientId", 0, 0), <<>>)

send_packet(srv, client_id, type, token_client, token_sequence, len) ==
    LET idx == Position({ i \in Occupied(srv.clients) : srv.clients[i].client_id = client_id })
    IN  IF idx # NotFound
        THEN LET s == ChannelSend(srv.clients[idx].channel, srv.time, type,
                                  token_client, token_sequence, len)
             IN  Result([srv EXCEPT !.clients[idx].channel = s.ch], Ev("Ok", 0, len), s.out)
        ELSE Result(srv, Ev("InvalidClientId", 0, 0), <<>>)

send_denied_packet(addr, key) ==
    << Out(addr, "ConnectionDenied", 0, key, 0, 0, 0, 0, 0) >>

\* a mutation of client_exists: the lookup by client id never matches
client_exists_never(srv, id) == FALSE

\* handle_client_connect: "See if we already have this connection"
client_exists(srv, id) == find_client_by_id(srv.clients, id) # NotFound

\* a mutation of open_slot: the last empty slot is taken
open_slot_last(cl) ==
    LET empty == DOMAIN cl \ Occupied(cl)
    IN  IF empty = {} THEN NotFound ELSE CHOOSE i \in empty : \A j \in empty : j <= i

\* handle_client_connect: "Find open index"
open_slot(cl) == Position(DOMAIN cl \ Occupied(cl))

\* a mutation of next_challenge_sequence: the counter is not advanced
next_challenge_sequence_same(cs) == cs

\* handle_client_connect: "self.challenge_sequence += 1"
next_challenge_sequence(cs) == cs + 1

handle_client_connect(srv, addr, req, now) ==
    LET pd == validate_client_token(srv.listen_addr, req, now)
    IN  IF pd = NoPrivateData
        THEN Result(srv, Ev("RejectedClient", 0, 0), <<>>)
        ELSE LET open == open_slot(srv.clients)
                 known == client_exists(srv, pd.client_id)
             IN  IF ~known /\ open = NotFound
                 THEN Result(srv, Ev("ClientSlotFull", 0, 0), send_denied_packet(addr, pd.key))
                 ELSE LET cl == IF known THEN srv.clients
                                ELSE [srv.clients EXCEPT ![open] =
                                        Connection(pd.client_id, "PendingResponse",
                                            ChannelNew(pd.key, addr, open, Capacity(srv.clients)))]
                          s1 == [srv EXCEPT !.clients = cl,
                                       !.challenge_sequence = next_challenge_sequence(@)]
                          snd == send_packet(s1, pd.client_id, "Challenge",
                                             pd.client_id, s1.challenge_sequence, 0)
                      IN  Result(snd.srv, NoEvent, snd.out)

\* a mutation of response_reply: nothing is sent on a Response
response_reply_none(ch, now) == [ch |-> ch, out |-> <<>>]

\* handle_packet: what the server sends when it accepts a Response
response_reply(ch, now) == send_keep_alive(ch, now)

\* a mutation of handle_decoded: the packet is handled as for an Idle slot
\* whatever the state of the slot
handle_decoded_as_idle(srv, client_idx, d, now) ==
    LET client == srv.clients[client_idx]
        SetState(s, st) == [s EXCEPT !.clients[client_idx].state = st]
    IN  CASE d.type = "Payload" ->
               Result(SetState(srv, "Idle"), Ev("Packet", client.client_id, d.len), <<>>)
          [] d.type = "KeepAlive" ->
               Result(SetState(srv, "Idle"), Ev("KeepAlive", client.client_id, 0), <<>>)
          [] d.type = "Disconnect" ->
               Result(SetState(srv, "Disconnected"),
                      Ev("ClientDisconnect", client.client_id, 0), <<>>)
          [] OTHER -> Result(SetState(srv, "Idle"), NoEvent, <<>>)

\* handle_packet after channel.recv returned the decoded packet
handle_decoded(srv, client_idx, d, now) ==
    LET client == srv.clients[client_idx]
        SetState(s, st) == [s EXCEPT !.clients[client_idx].state = st]
    IN  CASE client.state = "Idle" ->
               CASE d.type = "Payload" ->
                      Result(SetState(srv, "Idle"), Ev("Packet", client.client_id, d.len), <<>>)
                 [] d.type = "KeepAlive" ->
                      Result(SetState(srv, "Idle"), Ev("KeepAlive", client.client_id, 0), <<>>)
                 [] d.type = "Disconnect" ->
                      Result(SetState(srv, "Disconnected"),
                             Ev("ClientDisconnect", client.client_id, 0), <<>>)
                 [] OTHER -> Result(SetState(srv, "Idle"), NoEvent, <<>>)
          [] client.state = "PendingResponse" ->
               CASE d.type = "Response" ->
                      IF d.token = 0
                      THEN Result(srv, ErrDecode, <<>>)
                      ELSE LET s == response_reply(client.channel, srv.time)
                           IN  Result(SetState([srv EXCEPT !.clients[client_idx].channel = s.ch],
                                               "Idle"),
                                      Ev("ClientConnect", d.token, 0), s.out)
                 [] d.type = "ConnectionRequest" ->
                      LET h == handle_client_connect(srv, client.channel.addr, d.req, now)
                      IN  Result(SetState(h.srv, "PendingResponse"), NoEvent, h.out)
                 [] OTHER -> Result(SetState(srv, "PendingResponse"), NoEvent, <<>>)
          [] OTHER -> Result(SetState(srv, client.state), NoEvent, <<>>)

\* a mutation of is_duplicate: a replayed datagram is treated as any other
\* receive error
is_duplicate_never(result) == FALSE

\* handle_packet: the Err(RecvError::DuplicateSequence) arm
is_duplicate(result) == result = "DuplicateSequence"

\* a mutation of state_after_recv_error: the slot keeps its state
state_after_recv_error_kept(state) == state

\* handle_packet: the state a slot gets on any other receive error
state_after_recv_error(state) == "Disconnected"

handle_packet(srv, client_idx, d, now) ==
    IF d.type = "Empty" THEN Result(srv, NoEvent, <<>>)
    ELSE LET client == srv.clients[client_idx]
             rc == ChannelRecv(client.channel, srv.time, d)
         IN  IF is_duplicate(rc.result)
             THEN Result(srv, Ev("ReplayRejected", client.client_id, 0), <<>>)
             ELSE IF rc.result # "Ok"
             THEN Result([srv EXCEPT !.clients[client_idx].state =
                                         state_after_recv_error(client.state)],
                         Ev("ClientDisconnect", client.client_id, 0), <<>>)
             ELSE handle_decoded([srv EXCEPT !.clients[client_idx].channel = rc.ch],
                                 client_idx, d, now)

handle_io(srv, d, now) ==
    LET idx == find_client_by_addr(srv.clients, d.addr)
    IN  IF idx = NotFound
        THEN IF d.type = "ConnectionRequest"
             THEN handle_client_connect(srv, d.addr, d.req, now)
             ELSE Result(srv, NoEvent, <<>>)
        ELSE handle_packet(srv, idx, d, now)

\* a mutation of pending_keep_alive: keep-alives are sent before the
\* handshake is complete
pending_keep_alive_on == TRUE

\* tick_client: the send_keep_alive argument of channel.update for a slot in
\* PendingResponse
pending_keep_alive == FALSE

\* TickResult and the channel after the tick
tick_client(now, client) ==
    CASE client.state = "PendingResponse" ->
           LET u == ChannelUpdate(client.channel, now, pending_keep_alive)
           IN  [result |-> IF u.result = "Expired" THEN "StateChange"
                           ELSE IF u.result = "SentKeepAlive" THEN "SendKeepAlive"
                           ELSE "Noop",
                state |-> "TimedOut", ch |-> u.ch, out |-> u.out]
      [] client.state = "Idle" ->
           LET u == ChannelUpdate(client.channel, now, TRUE)
           IN  [result |-> IF u.result = "Expired" THEN "StateChange"
                           ELSE IF u.result = "SentKeepAlive" THEN "SendKeepAlive"
                           ELSE "Noop",
                state |-> "TimedOut", ch |-> u.ch, out |-> u.out]
      [] OTHER -> [result |-> "Noop", state |-> client.state,
                   ch |-> client.channel, out |-> <<>>]

\* a mutation of advance: the cursor skips a slot
advance_twice(idx) == idx + 2

\* next_event: "self.client_event_idx += 1"
advance(idx) == idx + 1

\* the second loop of next_event
RECURSIVE tick_phase(_, _)
tick_phase(srv, out) ==
    IF srv.client_event_idx >= Capacity(srv.clients)
    THEN Result(srv, NoEvent, out)
    ELSE LET i == srv.client_event_idx
             client == srv.clients[i]
             t == IF client # None THEN tick_client(srv.time, client)
                  ELSE [result |-> "Noop", state |-> "", ch |-> None, out |-> <<>>]
             ticked == IF client # None
                       THEN [srv EXCEPT !.clients[i].channel = t.ch]
                       ELSE srv
             next == [ticked EXCEPT !.client_event_idx = advance(@)]
         IN  CASE t.result = "StateChange" /\ t.state \in { "TimedOut", "Disconnected" } ->
                    Result([next EXCEPT !.clients[i] = None],
                           Ev("ClientDisconnect", client.client_id, 0), out \o t.out)
               [] t.result = "StateChange" ->
                    tick_phase([next EXCEPT !.clients[i].state = t.state], out \o t.out)
               [] t.result = "SendKeepAlive" ->
                    Result(next, Ev("KeepAlive", client.client_id, 0), out \o t.out)
               [] OTHER -> tick_phase(next, out \o t.out)

\* a mutation of next_event: what handling the datagram returned is dropped
next_event_drops(srv, d, now) ==
    LET io == handle_io(srv, d, now)
    IN  tick_phase(io.srv, io.out)

\* next_event on a datagram the socket returned
next_event(srv, d, now) ==
    LET io == handle_io(srv, d, now)
    IN  IF io.event = NoEvent THEN tick_phase(io.srv, io.out) ELSE io

\* Server::update
update(srv, elapsed) == [srv EXCEPT !.time = @ + elapsed, !.client_event_idx = 0]

\* a mutation of send: the client is looked up before the length is checked
send_lookup_first(srv, client_id, len) ==
    IF find_client_by_id(srv.clients, client_id) = NotFound
    THEN Result(srv, Ev("InvalidClientId", 0, 0), <<>>)
    ELSE IF len = 0 \/ len > NETCODE_MAX_PAYLOAD_SIZE
    THEN Result(srv, Ev("PacketSize", 0, 0), <<>>)
    ELSE send_packet(srv, client_id, "Payload", 0, 0, len)

\* Server::send
send(srv, client_id, len) ==
    IF len = 0 \/ len > NETCODE_MAX_PAYLOAD_SIZE
    THEN Result(srv, Ev("PacketSize", 0, 0), <<>>)
    ELSE send_packet(srv, client_id, "Payload", 0, 0, len)

--------------------------------------------------------------------------
\* The state machine.

Bounded(srv) ==
    /\ srv.challenge_sequence <= MaxChallenge
    /\ \A i \in Occupied(srv.clients) :
          srv.clients[i].channel.next_sequence <= MaxSendSeq + 1

\* the datagram was handed to slot i's channel, which accepted it
Accepts(srv, d, i) ==
    /\ d.type # "Empty"
    /\ find_client_by_addr(srv.clients, d.addr) = i
    /\ i # NotFound
    /\ ChannelRecv(srv.clients[i].channel, srv.time, d).result = "Ok"

\* the server after a call that returned r
Install(r) ==
    /\ Bounded(r.srv)
    /\ clients' = r.srv.clients
    /\ time' = r.srv.time
    /\ challenge_sequence' = r.srv.challenge_sequence
    /\ client_event_idx' = r.srv.client_event_idx
    /\ UNCHANGED <<max_clients, listen_addr>>

\* Server::new
Init ==
    /\ listen_addr \in ListenAddrs
    /\ max_clients \in 1 .. MaxClients
    /\ clients = [i \in 0 .. max_clients - 1 |-> None]
    /\ time = 0
    /\ challenge_sequence = 0
    /\ client_event_idx = 0
    /\ queued = 0
    /\ accepted = [i \in 0 .. MaxClients - 1 |-> {}]

\* a datagram reaches the listen socket
Arrive ==
    /\ queued < MaxQueue
    /\ queued' = queued + 1
    /\ UNCHANGED <<max_clients, listen_addr, clients, time, challenge_sequence,
                   client_event_idx, accepted>>

\* Server::update
Update ==
    \E elapsed \in Elapsed :
        /\ time + elapsed <= MaxTime
        /\ Install(Result(update(Self, elapsed), Ev("Ok", 0, 0), <<>>))
        /\ UNCHANGED <<queued, accepted>>

\* Server::next_event, the socket returning a datagram
NextEventRecv ==
    /\ queued > 0
    /\ \E d \in Datagrams(IssuedTokens(clients)) :
       \E now \in WallClock :
          /\ Install(next_event(Self, d, now))
          /\ queued' = queued - 1
          /\ accepted' = [i \in DOMAIN accepted |->
                IF i \notin DOMAIN clients' \/ clients'[i] = None \/ clients[i] = None
                THEN {}
                ELSE IF Accepts(Self, d, i) THEN accepted[i] \cup { SequenceOf(d) }
                ELSE accepted[i]]

\* Server::next_event, the socket returning WouldBlock
NextEventIdle ==
    /\ queued = 0
    /\ Install(tick_phase(Self, <<>>))
    /\ accepted' = [i \in DOMAIN accepted |->
          IF i \notin DOMAIN clients' \/ clients'[i] = None THEN {} ELSE accepted[i]]
    /\ UNCHANGED queued

\* Server::send
Send ==
    \E id \in ClientIds, len \in { 0, 7, NETCODE_MAX_PAYLOAD_SIZE + 1 } :
        /\ Install(send(Self, id, len))
        /\ UNCHANGED <<queued, accepted>>

Next == Arrive \/ Update \/ NextEventRecv \/ NextEventIdle \/ Send

Spec == Init /\ [][Next]_vars

--------------------------------------------------------------------------
\* The properties.

\* the ConnectionRequest datagrams the socket can return
ConnectionRequests == { d \in Datagrams({}) : d.type = "ConnectionRequest" }

Valid(d, now) == validate_client_token(listen_addr, d.req, now) # NoPrivateData

\* C1: in every reachable state no two occupied slots have the same peer
\* address.
C1_NoSharedAddress ==
    \A i, j \in Occupied(clients) :
        i # j => clients[i].channel.addr # clients[j].channel.addr

\* C2: in every reachable state the slot table has the length given at
\* construction and the client ids of the occupied slots are pairwise
\* distinct; a valid ConnectionRequest for a client id that a slot already
\* holds occupies no further slot.
C2_DistinctIdsFixedTable ==
    /\ DOMAIN clients = 0 .. max_clients - 1
    /\ \A i, j \in Occupied(clients) :
          i # j => clients[i].client_id # clients[j].client_id
    /\ \A d \in ConnectionRequests, now \in WallClock :
          Valid(d, now) /\ find_client_by_id(clients, d.req.client_id) # NotFound
             => Occupied(handle_io(Self, d, now).srv.clients) = Occupied(clients)

\* a full table of two connections, after which a request for a held client
\* id is still pending in the socket
C2_Witness ==
    /\ max_clients = 2
    /\ Occupied(clients) = { 0, 1 }
    /\ queued > 0

\* the datagrams the socket can return in the current state
Inbound == Datagrams(IssuedTokens(clients))

\* the slot a datagram is routed to
SlotOf(d) == find_client_by_addr(clients, d.addr)

\* the datagram is handed to the channel of an occupied slot
Routed(d) == d.type # "Empty" /\ SlotOf(d) # NotFound

\* the tick phase of the step inspects slot i
Inspected(i) == client_event_idx <= i /\ i < client_event_idx'

\* the request fails one of the checks on a connect token: version, expiry,
\* private data, bound address
Flawed(d, now) ==
    \/ d.req.version # NETCODE_VERSION_STRING
    \/ now > d.req.token_expire
    \/ ~d.req.sealed
    \/ ~\E h \in d.req.hosts :
           h = listen_addr \/ (listen_addr.port = 0 /\ h.ip = listen_addr.ip)

\* C3: a slot whose state is Disconnected or TimedOut is emptied by the
\* drain: the next_event call whose tick phase inspects the slot leaves it
\* empty.
C3_EndedSlotReleased ==
    [][\A i \in DOMAIN clients :
          (/\ clients[i] # None
           /\ clients[i].state \in { "Disconnected", "TimedOut" }
           /\ Inspected(i))
             => clients'[i] = None]_vars

\* C4: an occupied slot for which time - last_recv exceeds RECV_TIMEOUT, and
\* for which no packet is accepted meanwhile, is empty after the next_event
\* call whose tick phase inspects it.
C4_ExpiredSlotReleased ==
    [][\A i \in DOMAIN clients :
          (/\ clients[i] # None
           /\ time - clients[i].channel.last_recv > RECV_TIMEOUT
           /\ Inspected(i)
           /\ ~(clients'[i] # None /\ clients'[i].channel.last_recv = time))
             => clients'[i] = None]_vars

\* C5: a datagram whose sequence the slot's channel accepted before, or whose
\* sequence is at or below an accepted sequence minus the window, is not
\* accepted: it causes no Packet, KeepAlive or ClientConnect event and no
\* change of any slot.
C5_NoSequenceAcceptedTwice ==
    \A d \in Inbound, now \in WallClock :
        LET i == SlotOf(d)
        IN  (/\ Routed(d)
             /\ \/ SequenceOf(d) \in accepted[i]
                \/ \E h \in accepted[i] : SequenceOf(d) <= h - REPLAY_WINDOW)
               => LET r == handle_io(Self, d, now)
                  IN  /\ ~Accepts(Self, d, i)
                      /\ r.event.type \notin { "Packet", "KeepAlive", "ClientConnect" }
                      /\ r.srv.clients = clients

C5_Witness ==
    \E i \in Occupied(clients) :
        /\ clients[i].state = "Idle"
        /\ accepted[i] = { REPLAY_WINDOW }
        /\ queued > 0

\* C6: a datagram the slot's channel rejects as a duplicate sequence makes
\* next_event return ReplayRejected with the slot's client id, changes
\* nothing of the server (slots, challenge_sequence, event cursor) and sends
\* nothing, whatever the state of the slot.
C6_DuplicateOnlyRejected ==
    \A d \in Inbound, now \in WallClock :
        (/\ Routed(d)
         /\ ChannelRecv(clients[SlotOf(d)].channel, time, d).result = "DuplicateSequence")
           => LET r == next_event(Self, d, now)
              IN  /\ r.event = Ev("ReplayRejected", clients[SlotOf(d)].client_id, 0)
                  /\ r.srv = Self
                  /\ r.out = <<>>

C6_Witness ==
    \E i \in Occupied(clients) :
        /\ clients[i].state = "Disconnected"
        /\ clients[i].channel.marked # {}
        /\ SlotOf(Dgram(clients[i].channel.addr, "Payload", 0, TRUE, NoRequest, 0, 7)) = i
        /\ queued > 0

\* C7: a datagram on which the slot's channel fails with an error other
\* than a duplicate sequence makes next_event return ClientDisconnect with
\* the slot's client id and leaves the slot Disconnected; no other slot
\* changes.
C7_RecvErrorDisconnects ==
    \A d \in Inbound, now \in WallClock :
        LET i == SlotOf(d)
        IN  (/\ Routed(d)
             /\ ChannelRecv(clients[i].channel, time, d).result
                   \notin { "Ok", "DuplicateSequence" })
               => LET r == next_event(Self, d, now)
                  IN  /\ r.event = Ev("ClientDisconnect", clients[i].client_id, 0)
                      /\ r.srv.clients[i].state = "Disconnected"
                      /\ r.srv.clients[i].client_id = clients[i].client_id
                      /\ \A j \in DOMAIN clients \ { i } : r.srv.clients[j] = clients[j]

C7_Witness ==
    \E i \in Occupied(clients) :
        /\ clients[i].state = "Disconnected"
        /\ accepted[i] = {}

\* C8: a ConnectionRequest that carries the token of a slot in
\* PendingResponse and comes from that slot's peer gets one Challenge sent to
\* the peer, leaves the slot in PendingResponse and occupies no further slot.
C8_RepeatedRequestChallenged ==
    \A d \in ConnectionRequests, now \in WallClock :
        LET i == SlotOf(d)
        IN  (/\ Routed(d)
             /\ clients[i].state = "PendingResponse"
             /\ d.req = GoodRequest(clients[i].client_id)
             /\ ~Flawed(d, now))
               => LET r == handle_io(Self, d, now)
                  IN  /\ Len(r.out) = 1
                      /\ r.out[1].type = "Challenge"
                      /\ r.out[1].to = d.addr
                      /\ r.srv.clients[i].state = "PendingResponse"
                      /\ Occupied(r.srv.clients) = Occupied(clients)

\* C9: a ConnectionRequest that fails validation, from an address with no
\* slot or from the address of a slot in PendingResponse, makes the
\* next_event call that consumes it return RejectedClient.
C9_FailedRequestRejected ==
    \A d \in ConnectionRequests, now \in WallClock :
        (/\ Flawed(d, now)
         /\ \/ SlotOf(d) = NotFound
            \/ clients[SlotOf(d)].state = "PendingResponse")
           => next_event(Self, d, now).event = Ev("RejectedClient", 0, 0)

\* C10: handling a ConnectionRequest that fails validation sends no datagram
\* and leaves occupancy, client ids, states and challenge_sequence as they
\* were; the next_event call that consumes it sends no Challenge and no
\* ConnectionDenied and leaves challenge_sequence as it was.
C10_FailedRequestSilent ==
    \A d \in ConnectionRequests, now \in WallClock :
        Flawed(d, now)
           => LET r == handle_io(Self, d, now)
                  n == next_event(Self, d, now)
              IN  /\ r.out = <<>>
                  /\ r.srv.challenge_sequence = challenge_sequence
                  /\ Occupied(r.srv.clients) = Occupied(clients)
                  /\ \A i \in Occupied(clients) :
                        /\ r.srv.clients[i].client_id = clients[i].client_id
                        /\ r.srv.clients[i].state = clients[i].state
                  /\ n.srv.challenge_sequence = challenge_sequence
                  /\ \A k \in 1 .. Len(n.out) :
                        n.out[k].type \notin { "Challenge", "ConnectionDenied" }

C10_Witness ==
    /\ queued > 0
    /\ challenge_sequence > 0
    /\ \E i \in Occupied(clients) : clients[i].state = "PendingResponse"
    /\ \E i \in DOMAIN clients : clients[i] = None

\* the table is full and no slot holds the client id of the request
FullForRequest(d) ==
    /\ Occupied(clients) = DOMAIN clients
    /\ find_client_by_id(clients, d.req.client_id) = NotFound

\* C11: with every slot occupied, a valid ConnectionRequest for a client id
\* no slot holds makes next_event send one ConnectionDenied (sequence 0,
\* under the token's key) to the requester and nothing else, return
\* ClientSlotFull, and leave the slots and challenge_sequence as they were.
C11_FullTableDenies ==
    \A d \in ConnectionRequests, now \in WallClock :
        (~Flawed(d, now) /\ FullForRequest(d))
           => LET r == next_event(Self, d, now)
              IN  /\ r.out = << Out(d.addr, "ConnectionDenied", 0, d.req.client_id,
                                    0, 0, 0, 0, 0) >>
                  /\ r.event = Ev("ClientSlotFull", 0, 0)
                  /\ r.srv.challenge_sequence = challenge_sequence
                  /\ r.srv.clients = clients

--------------------------------------------------------------------------
\* Connect tokens against the bound address: servers bound to a wildcard
\* port and to a fixed port, tokens of every kind, the clock around the
\* expiry.

TokenListenAddrs == { Addr(1, 0), Addr(1, 5) }
TokenHosts == { {}, { Addr(1, 5) }, { Addr(1, 7) }, { Addr(9, 5), Addr(9, 0) } }
TokenClock == { 1, 2, 3 }
TokenRequests ==
    { Request(v, 2, k, hs, id) :
        v \in { NETCODE_VERSION_STRING, "NETCODE 0.99" }, k \in BOOLEAN,
        hs \in TokenHosts, id \in ClientIds }

TokenInit ==
    /\ listen_addr \in TokenListenAddrs
    /\ max_clients \in 1 .. MaxClients
    /\ clients = [i \in 0 .. max_clients - 1 |-> None]
    /\ time = 0
    /\ challenge_sequence = 0
    /\ client_event_idx = 0
    /\ queued = 0
    /\ accepted = [i \in 0 .. MaxClients - 1 |-> {}]

\* Server::next_event, the socket returning a ConnectionRequest
TokenRecv ==
    /\ queued > 0
    /\ \E a \in PeerAddrs, req \in TokenRequests, now \in TokenClock :
          LET d == Dgram(a, "ConnectionRequest", 0, TRUE, req, 0, 0)
          IN  /\ Install(next_event(Self, d, now))
              /\ queued' = queued - 1
              /\ accepted' = [i \in DOMAIN accepted |->
                    IF i \notin DOMAIN clients' \/ clients'[i] = None \/ clients[i] = None
                    THEN {}
                    ELSE IF Accepts(Self, d, i) THEN accepted[i] \cup { SequenceOf(d) }
                    ELSE accepted[i]]

TokenNext == Arrive \/ Update \/ TokenRecv

TokenSpec == TokenInit /\ [][TokenNext]_vars

\* C12: validate_client_token accepts a request exactly when the version
\* matches, now is not after token_expire, the private data decodes, and
\* some host of the token is the bound address or, the bound port being 0,
\* has the ip of the bound address; it then yields the token's client id.
C12_TokenAcceptedIff ==
    \A req \in TokenRequests, now \in TokenClock :
        LET pd == validate_client_token(listen_addr, req, now)
            bound == \E h \in req.hosts :
                        \/ h = listen_addr
                        \/ listen_addr.port = 0 /\ h.ip = listen_addr.ip
        IN  /\ pd # NoPrivateData
                <=> /\ req.version = NETCODE_VERSION_STRING
                    /\ now <= req.token_expire
                    /\ req.sealed
                    /\ bound
            /\ pd # NoPrivateData => pd.client_id = req.client_id

C12_Witness ==
    /\ listen_addr.port # 0
    /\ Occupied(clients) # {}
    /\ queued > 0

--------------------------------------------------------------------------
\* the outcomes of every call the embedder can make in the current state
EventCalls == { next_event(Self, d, now) : d \in Inbound, now \in WallClock }
                 \cup { tick_phase(Self, <<>>) }
SendCalls == { send(Self, id, len) :
                 id \in ClientIds, len \in { 0, 7, NETCODE_MAX_PAYLOAD_SIZE + 1 } }
UpdateCalls == { Result(update(Self, elapsed), Ev("Ok", 0, 0), <<>>) : elapsed \in Elapsed }
Calls == EventCalls \cup SendCalls \cup UpdateCalls

\* the positions in a call's output of the datagrams of one type
OfType(out, type) == { k \in 1 .. Len(out) : out[k].type = type }

\* C13: a Response the channel of a PendingResponse slot accepts, with a
\* challenge token that decrypts, makes the same next_event call send one
\* KeepAlive to the slot's peer, set the slot Idle and return ClientConnect;
\* with a challenge token that does not decrypt the slot stays in
\* PendingResponse, nothing is sent and no ClientConnect is returned.
C13_ResponseConnects ==
    \A d \in Inbound, now \in WallClock :
        LET i == SlotOf(d)
        IN  (/\ Routed(d)
             /\ d.type = "Response"
             /\ clients[i].state = "PendingResponse"
             /\ ChannelRecv(clients[i].channel, time, d).result = "Ok")
               => LET r == next_event(Self, d, now)
                      ch == clients[i].channel
                  IN  IF d.token # 0
                      THEN /\ r.event.type = "ClientConnect"
                           /\ r.srv.clients[i].state = "Idle"
                           /\ r.out = << Out(ch.addr, "KeepAlive", ch.next_sequence, ch.key,
                                             0, 0, i, max_clients, 0) >>
                      ELSE /\ r.event.type # "ClientConnect"
                           /\ r.srv.clients[i].state = "PendingResponse"
                           /\ r.out = <<>>

C13_Witness ==
    \E i \in Occupied(clients) :
        /\ clients[i].state = "Idle"
        /\ clients[i].channel.next_sequence = 3
        /\ accepted[i] # {}

\* C14: no call lowers challenge_sequence, and every Challenge a call issues
\* carries a challenge sequence above the counter before the call (hence
\* above every earlier one), at most the counter after it, and unlike that
\* of any other Challenge of the call.
C14_ChallengeSequenceGrows ==
    \A r \in Calls :
        /\ r.srv.challenge_sequence >= challenge_sequence
        /\ \A k \in OfType(r.out, "Challenge") :
              /\ r.out[k].token_sequence > challenge_sequence
              /\ r.out[k].token_sequence <= r.srv.challenge_sequence
              /\ \A j \in OfType(r.out, "Challenge") :
                    j # k => r.out[j].token_sequence # r.out[k].token_sequence

C14_Witness ==
    /\ challenge_sequence = 2
    /\ queued > 0
    /\ \E i \in Occupied(clients) :
          /\ clients[i].state = "PendingResponse"
          /\ clients[i].channel.next_sequence = 3
          /\ accepted[i] = { 0 }

\* C15: the datagrams a call sends through a channel carry sequences at or
\* above the channel's send sequence before the call, strictly increasing
\* in send order and below the channel's send sequence after the call, and
\* the send sequence of a channel never goes down; so the sequences sent
\* through a channel increase strictly over any succession of calls.
C15_SendSequenceIncreases ==
    \A r \in Calls :
        /\ \A k \in 1 .. Len(r.out) :
              r.out[k].type # "ConnectionDenied"
                 => LET before == find_client_by_id(clients, r.out[k].key)
                        after == find_client_by_id(r.srv.clients, r.out[k].key)
                    IN  /\ r.out[k].seq >= IF before # NotFound
                                           THEN clients[before].channel.next_sequence
                                           ELSE 1
                        /\ after # NotFound
                              => r.srv.clients[after].channel.next_sequence > r.out[k].seq
                        /\ \A j \in 1 .. k - 1 :
                              (r.out[j].type # "ConnectionDenied" /\ r.out[j].key = r.out[k].key)
                                 => r.out[j].seq < r.out[k].seq
        /\ \A i \in Occupied(clients) \cap Occupied(r.srv.clients) :
              r.srv.clients[i].client_id = clients[i].client_id
                 => r.srv.clients[i].channel.next_sequence
                       >= clients[i].channel.next_sequence

C15_Witness ==
    \E i \in Occupied(clients) :
        /\ clients[i].state = "Idle"
        /\ clients[i].channel.next_sequence = 4

\* C16: send returns PacketSize for a payload of length 0 or above the
\* maximum, whatever the client id; otherwise InvalidClientId when no slot
\* holds the client id; in both cases nothing is sent and the server is as
\* before; otherwise it does not fail.
C16_SendErrors ==
    \A id \in ClientIds, len \in { 0, 1, NETCODE_MAX_PAYLOAD_SIZE, NETCODE_MAX_PAYLOAD_SIZE + 1 } :
        LET r == send(Self, id, len)
        IN  IF len = 0 \/ len > NETCODE_MAX_PAYLOAD_SIZE
            THEN r.event = Ev("PacketSize", 0, 0) /\ r.srv = Self /\ r.out = <<>>
            ELSE IF \A i \in Occupied(clients) : clients[i].client_id # id
            THEN r.event = Ev("InvalidClientId", 0, 0) /\ r.srv = Self /\ r.out = <<>>
            ELSE r.event = Ev("Ok", 0, len) /\ Len(r.out) = 1

C16_Witness ==
    /\ Occupied(clients) # {}
    /\ \E id \in ClientIds : \A i \in Occupied(clients) : clients[i].client_id # id
    /\ \E i \in Occupied(clients) : clients[i].channel.next_sequence = MaxSendSeq + 1

\* the call changed the occupancy or the connection state of slot i
SlotChanged(r, i) ==
    \/ (clients[i] = None) # (r.srv.clients[i] = None)
    \/ /\ clients[i] # None
       /\ r.srv.clients[i] # None
       /\ r.srv.clients[i].state # clients[i].state

\* C17 as stated: a next_event call that creates a slot, changes the state
\* of a slot or releases a slot returns an event.
C17_EveryChangeHasEvent ==
    \A r \in EventCalls :
        (\E i \in DOMAIN clients : SlotChanged(r, i))
           => r.event.type \notin { "None", "Err" }

\* C17 as amended: a next_event call that changes the state of an occupied
\* slot or releases it returns ClientConnect when the change is
\* PendingResponse to Idle and ClientDisconnect with the slot's client id
\* otherwise.
C17_ChangeOfHeldSlotHasEvent ==
    \A r \in EventCalls :
        \A i \in Occupied(clients) :
            SlotChanged(r, i)
               => IF /\ r.srv.clients[i] # None
                     /\ clients[i].state = "PendingResponse"
                     /\ r.srv.clients[i].state = "Idle"
                  THEN r.event.type = "ClientConnect"
                  ELSE r.event = Ev("ClientDisconnect", clients[i].client_id, 0)

C17_Witness ==
    \E i \in Occupied(clients) :
        /\ clients[i].state = "Disconnected"
        /\ accepted[i] # {}
        /\ queued > 0

--------------------------------------------------------------------------
\* Bursts: several datagrams are queued when next_event is called.

BurstInit == Init /\ max_clients = 1

BurstArrive ==
    /\ queued < MaxBurst
    /\ queued' = queued + 1
    /\ UNCHANGED <<max_clients, listen_addr, clients, time, challenge_sequence,
                   client_event_idx, accepted>>

BurstNext == BurstArrive \/ Update \/ NextEventRecv \/ NextEventIdle

BurstSpec == BurstInit /\ [][BurstNext]_vars

\* C18: a next_event call that takes a datagram while further datagrams are
\* queued does not enter the tick phase: the event cursor stays where it
\* was.
C18_IoPhaseBeforeTick ==
    [][(queued > 1 /\ queued' = queued - 1)
          => client_event_idx' = client_event_idx]_vars

\* C19: the event cursor stays between 0 and the capacity; a step that
\* lowers it or moves the clock sets it to 0 and changes nothing but the
\* clock and the cursor; a slot is released only by a call whose tick phase
\* starts at or before it, and the cursor then stands right after it.
C19_CursorAdvances ==
    [][/\ 0 <= client_event_idx /\ client_event_idx <= max_clients
       /\ 0 <= client_event_idx' /\ client_event_idx' <= max_clients
       /\ (client_event_idx' < client_event_idx \/ time' # time)
             => /\ client_event_idx' = 0
                /\ time' >= time
                /\ UNCHANGED <<max_clients, listen_addr, clients, challenge_sequence,
                               queued, accepted>>
       /\ \A i \in Occupied(clients) :
             clients'[i] = None
                => client_event_idx <= i /\ client_event_idx' = i + 1]_vars

C19_Witness ==
    /\ max_clients = 2
    /\ client_event_idx = 2
    /\ time > 0
    /\ Occupied(clients) # {}

\* C20: after a valid ConnectionRequest that is answered with a Challenge
\* the slot that holds the token's client id is in PendingResponse.
C20_ChallengedSlotPending ==
    \A d \in ConnectionRequests, now \in WallClock :
        ~Flawed(d, now)
           => LET r == handle_io(Self, d, now)
                  j == find_client_by_id(r.srv.clients, d.req.client_id)
              IN  OfType(r.out, "Challenge") # {}
                     => j # NotFound /\ r.srv.clients[j].state = "PendingResponse"

--------------------------------------------------------------------------
\* the request is valid, comes from an address no slot has, is for a client
\* id no slot holds, and a slot is empty
Admissible(d, now) ==
    /\ ~Flawed(d, now)
    /\ SlotOf(d) = NotFound
    /\ find_client_by_id(clients, d.req.client_id) = NotFound
    /\ Occupied(clients) # DOMAIN clients

Decoded(d, i) == i = SlotOf(d) /\ Accepts(Self, d, i)

\* C22: handling a datagram yields a Packet or KeepAlive event only for a
\* slot that is Idle; for an Idle slot a decoded Payload yields Packet with
\* the slot's client id and the length, a KeepAlive yields KeepAlive, a
\* Disconnect sets the slot Disconnected and yields ClientDisconnect, and
\* any other packet yields no event and leaves the state Idle.
C22_IdlePacketHandling ==
    \A d \in Inbound, now \in WallClock :
        LET r == handle_io(Self, d, now)
            i == SlotOf(d)
        IN  /\ r.event.type \in { "Packet", "KeepAlive" }
                  => Decoded(d, i) /\ clients[i].state = "Idle"
            /\ (Decoded(d, i) /\ clients[i].state = "Idle")
                  => LET id == clients[i].client_id
                     IN  CASE d.type = "Payload" ->
                                /\ r.event = Ev("Packet", id, d.len)
                                /\ r.srv.clients[i].state = "Idle"
                           [] d.type = "KeepAlive" ->
                                /\ r.event = Ev("KeepAlive", id, 0)
                                /\ r.srv.clients[i].state = "Idle"
                           [] d.type = "Disconnect" ->
                                /\ r.event = Ev("ClientDisconnect", id, 0)
                                /\ r.srv.clients[i].state = "Disconnected"
                           [] OTHER ->
                                /\ r.event = NoEvent
                                /\ r.out = <<>>
                                /\ r.srv.clients[i].state = "Idle"

C22_Witness ==
    \E i \in Occupied(clients) :
        /\ clients[i].state = "Idle"
        /\ Cardinality(accepted[i]) = 2
        /\ queued > 0

\* C23: for a slot in PendingResponse a decoded packet that is neither a
\* Response nor a ConnectionRequest yields no event, sends nothing and
\* leaves the slot in PendingResponse and every slot's identity and state
\* as they were.
C23_PendingDiscards ==
    \A d \in Inbound, now \in WallClock :
        LET i == SlotOf(d)
        IN  (/\ Decoded(d, i)
             /\ clients[i].state = "PendingResponse"
             /\ d.type \notin { "Response", "ConnectionRequest" })
               => LET r == handle_io(Self, d, now)
                  IN  /\ r.event = NoEvent
                      /\ r.out = <<>>
                      /\ r.srv.clients[i].state = "PendingResponse"
                      /\ r.srv.challenge_sequence = challenge_sequence
                      /\ \A j \in DOMAIN clients \ { i } : r.srv.clients[j] = clients[j]

C23_Witness ==
    \E i \in Occupied(clients) :
        /\ clients[i].state = "PendingResponse"
        /\ REPLAY_WINDOW \in accepted[i]
        /\ clients[i].channel.next_sequence = 2

\* the servers a tick phase starts from: the current one, and the one left
\* by a datagram that was handled without an event
TickStarts ==
    { Self } \cup
    { handle_io(Self, d, now).srv :
        d \in { e \in Inbound : \E now \in WallClock : handle_io(Self, e, now).event = NoEvent },
        now \in WallClock }

\* C24: the tick phase sends no KeepAlive through a slot in PendingResponse
\* and returns no KeepAlive event for it: it leaves the slot as it was, or,
\* the slot having timed out, releases it and returns ClientDisconnect.
C24_NoKeepAliveWhilePending ==
    \A s \in TickStarts :
        LET r == tick_phase(s, <<>>)
        IN  \A i \in Occupied(s.clients) :
                s.clients[i].state = "PendingResponse"
                   => LET id == s.clients[i].client_id
                      IN  /\ \A k \in OfType(r.out, "KeepAlive") : r.out[k].key # id
                          /\ r.event # Ev("KeepAlive", id, 0)
                          /\ \/ r.srv.clients[i] = s.clients[i]
                             \/ /\ r.srv.clients[i] = None
                                /\ r.event = Ev("ClientDisconnect", id, 0)
                                /\ s.time - s.clients[i].channel.last_recv > RECV_TIMEOUT

C24_Witness ==
    \E i \in Occupied(clients) :
        /\ clients[i].state = "PendingResponse"
        /\ time - clients[i].channel.last_send > SEND_KEEP_ALIVE_INTERVAL
        /\ time - clients[i].channel.last_recv <= RECV_TIMEOUT
        /\ client_event_idx > i

\* C25: a ClientConnect event carries the client id of the slot that
\* received the Response and became Idle.
C25_ConnectCarriesSlotId ==
    \A d \in Inbound, now \in WallClock :
        LET i == SlotOf(d)
            r == handle_io(Self, d, now)
        IN  r.event.type = "ClientConnect"
               => /\ i # NotFound
                  /\ clients[i].state = "PendingResponse"
                  /\ r.srv.clients[i].state = "Idle"
                  /\ r.event.id = clients[i].client_id

\* C26: once ClientDisconnect was returned for a connection (its slot is
\* Disconnected), no later call returns ClientDisconnect with its client
\* id while the slot stays occupied.
C26_DisconnectAnnouncedOnce ==
    \A i \in Occupied(clients) :
        clients[i].state = "Disconnected"
           => \A r \in EventCalls :
                 r.event # Ev("ClientDisconnect", clients[i].client_id, 0)

\* the states a slot can be in after a step, given its state before
Forward(state) ==
    CASE state = "PendingResponse" -> { "PendingResponse", "Idle", "Disconnected" }
      [] state = "Idle" -> { "Idle", "Disconnected" }
      [] OTHER -> { state }

\* C27: a slot is created in PendingResponse; the state of an occupied slot
\* only moves forward; it becomes Idle only from PendingResponse, in a step
\* in which its channel accepted a packet; a Disconnected slot stays
\* Disconnected, with its client id, for as long as it is occupied.
C27_StateMovesForward ==
    [][\A i \in DOMAIN clients :
          /\ (clients[i] = None /\ clients'[i] # None)
                => clients'[i].state = "PendingResponse"
          /\ (clients[i] # None /\ clients'[i] # None)
                => /\ clients'[i].client_id = clients[i].client_id
                   /\ clients'[i].state \in Forward(clients[i].state)
                   /\ (clients'[i].state = "Idle" /\ clients[i].state # "Idle")
                         => /\ clients[i].state = "PendingResponse"
                            /\ accepted'[i] # accepted[i]]_vars

C27_Witness ==
    \E i \in Occupied(clients) :
        /\ clients[i].state = "Disconnected"
        /\ clients[i].channel.next_sequence = MaxSendSeq + 1
        /\ Cardinality(accepted[i]) = 2

\* the calls left before next_event returns none are at most the datagrams
\* queued plus the slots the tick phase has not passed
Remaining(srv, q) == q + Capacity(srv.clients) - srv.client_event_idx

\* C28: a next_event call that returns none leaves the event cursor at the
\* capacity, and a call that returns anything else takes a datagram off the
\* queue or moves the cursor forward: with q datagrams queued and none
\* arriving, none is returned within q + capacity + 1 calls.
C28_DrainEnds ==
    /\ Remaining(Self, queued) >= 0
    /\ Remaining(Self, queued) <= MaxQueue + max_clients
    /\ queued > 0
          => \A d \in Inbound, now \in WallClock :
                LET r == next_event(Self, d, now)
                IN  /\ r.event = NoEvent => r.srv.client_event_idx = max_clients
                    /\ Remaining(r.srv, queued - 1) < Remaining(Self, queued)
                    /\ Remaining(r.srv, queued - 1) >= 0
    /\ queued = 0
          => LET r == tick_phase(Self, <<>>)
             IN  /\ r.event = NoEvent => r.srv.client_event_idx = max_clients
                 /\ r.event # NoEvent => Remaining(r.srv, 0) < Remaining(Self, 0)
                 /\ Remaining(r.srv, 0) >= 0

C28_Witness ==
    /\ max_clients = 1
    /\ client_event_idx = 1
    /\ queued = 0
    /\ challenge_sequence > 0
    /\ time > 0

\* C29: the next_event call that admits a slot does not release it: the
\* clock has not moved since the admission.
C29_AdmittedSlotKept ==
    \A d \in ConnectionRequests, now \in WallClock :
        LET io == handle_io(Self, d, now)
            r == next_event(Self, d, now)
        IN  \A k \in DOMAIN clients :
               (clients[k] = None /\ io.srv.clients[k] # None)
                  => r.srv.clients[k] # None

====
